---- MODULE Spec2Model ----
(***************************************************************************)
(* Production-planning optimizer service.                                  *)
(*                                                                         *)
(* The model follows one request from an entry point (the three POST       *)
(* endpoints of api/endpoints/production.py, or a direct call of           *)
(* ProductionOptimizerBase.validate_and_solve) through the optimizer       *)
(* factory, the model builder, the LP solver and the result interpreter.   *)
(*                                                                         *)
(* Conventions.                                                            *)
(*  - A Python str that the code builds or takes apart character by        *)
(*    character (optimizer identifiers, class names) is a sequence of      *)
(*    one-character strings.  A message built by an f-string is the        *)
(*    sequence of its fragments.  Other strings are TLA+ strings.          *)
(*  - A Python dict is a function on its keys; a dict whose iteration      *)
(*    order the code depends on is [keys |-> insertion order, val |-> f].  *)
(*  - A call that may raise yields [raised |-> FALSE, value |-> v] or      *)
(*    [raised |-> TRUE, exc |-> [type |-> t, msg |-> m]].                  *)
(*  - Quantities, capacities and coefficients are integers.                *)
(***************************************************************************)
EXTENDS Integers, Sequences, FiniteSets, TLC

\* ------------------------------------------------------------------ bounds
\* the solver's quantities range over 0..MaxQty for every product
MaxQty == 2
\* Python objects (optimizer instances, solver models) ever allocated
MaxObjects == 4
\* the solver's terminal status codes range over 1..MaxStatusCode
MaxStatusCode == 10

\* --------------------------------------------------- solver status codes
GRB_LOADED == 1
GRB_OPTIMAL == 2
GRB_INFEASIBLE == 3
GRB_UNBOUNDED == 5
\* abs(value) < 1e-8 is Abs(value) * EpsilonInv < 1
EpsilonInv == 100000000

\* ------------------------------------------------------- generic helpers
Abs(n) == IF n < 0 THEN -n ELSE n

Range(s) == {s[i] : i \in DOMAIN s}

EmptyMap == [x \in {} |-> 0]

MapSet(f, k, v) == [x \in DOMAIN f \cup {k} |-> IF x = k THEN v ELSE f[x]]

Return(v) == [raised |-> FALSE, value |-> v]

Raise(t, m) == [raised |-> TRUE, exc |-> [type |-> t, msg |-> m]]

\* an insertion-ordered dict
EmptyDict == [keys |-> <<>>, val |-> EmptyMap]

DictPut(d, k, v) ==
    [keys |-> IF k \in DOMAIN d.val THEN d.keys ELSE Append(d.keys, k),
     val  |-> MapSet(d.val, k, v)]

\* {item[field]: item for item in list}
RECURSIVE DictByField(_, _)
DictByField(list, field) ==
    IF list = <<>> THEN EmptyDict
    ELSE LET n == Len(list)
         IN  DictPut(DictByField(SubSeq(list, 1, n - 1), field),
                     list[n][field], list[n])

\* str(n) of a non-negative int, as its decimal digits
Digit(d) == <<"0", "1", "2", "3", "4", "5", "6", "7", "8", "9">>[d + 1]

RECURSIVE IntToStr(_)
IntToStr(n) == IF n < 10 THEN <<Digit(n)>>
               ELSE IntToStr(n \div 10) \o <<Digit(n % 10)>>

\* ------------------------------------------------ identifiers and classes
Str_basic == <<"b", "a", "s", "i", "c">>

Str_demand_constrained ==
    <<"d", "e", "m", "a", "n", "d", "-",
      "c", "o", "n", "s", "t", "r", "a", "i", "n", "e", "d">>

Str_basic_production ==
    <<"b", "a", "s", "i", "c", "-",
      "p", "r", "o", "d", "u", "c", "t", "i", "o", "n">>

Str_Optimizer == <<"O", "p", "t", "i", "m", "i", "z", "e", "r">>

Str_BasicProduction ==
    <<"B", "a", "s", "i", "c", "P", "r", "o", "d", "u", "c", "t", "i", "o", "n">>

Str_DemandConstrained ==
    <<"D", "e", "m", "a", "n", "d",
      "C", "o", "n", "s", "t", "r", "a", "i", "n", "e", "d">>

Str_ProductionOptimizerBase ==
    <<"P", "r", "o", "d", "u", "c", "t", "i", "o", "n">> \o Str_Optimizer
        \o <<"B", "a", "s", "e">>

\* an identifier no variant is registered under, and the empty one
Str_bogus == <<"l", "p">>

\* the classes the optimizer modules hold: __name__ and the classes each
\* is a subclass of (itself included)
ClassTable ==
    [ProductionOptimizerBase |->
        [name |-> Str_ProductionOptimizerBase,
         mro  |-> {"ProductionOptimizerBase", "ABC"}],
     BasicProductionOptimizer |->
        [name |-> Str_BasicProduction \o Str_Optimizer,
         mro  |-> {"BasicProductionOptimizer", "ProductionOptimizerBase", "ABC"}],
     DemandConstrainedOptimizer |->
        [name |-> Str_DemandConstrained \o Str_Optimizer,
         mro  |-> {"DemandConstrainedOptimizer", "BasicProductionOptimizer",
                   "ProductionOptimizerBase", "ABC"}],
     ABC |-> [name |-> <<"A", "B", "C">>, mro |-> {"ABC"}],
     Any |-> [name |-> <<"A", "n", "y">>, mro |-> {"Any"}],
     GRB |-> [name |-> <<"G", "R", "B">>, mro |-> {"GRB"}]]

\* the class members of base, basic_production, demand_production, in the
\* order pkgutil.iter_modules and inspect.getmembers list them; typing.Any,
\* which each module imports, is a class from Python 3.11 on
ModuleMembers ==
    <<"ABC", "Any", "GRB", "ProductionOptimizerBase",
      "Any", "BasicProductionOptimizer", "GRB", "ProductionOptimizerBase",
      "Any", "BasicProductionOptimizer", "DemandConstrainedOptimizer", "GRB">>

UpperToLower ==
    [A |-> "a", B |-> "b", C |-> "c", D |-> "d", G |-> "g",
     O |-> "o", P |-> "p", R |-> "r"]

IsUpper(c) == c \in DOMAIN UpperToLower

EndsWith(s, suffix) ==
    /\ Len(s) >= Len(suffix)
    /\ SubSeq(s, Len(s) - Len(suffix) + 1, Len(s)) = suffix

RECURSIVE LStripDash(_)
LStripDash(s) == IF s # <<>> /\ Head(s) = "-" THEN LStripDash(Tail(s)) ELSE s

RECURSIVE DashLower(_)
DashLower(s) ==
    IF s = <<>> THEN <<>>
    ELSE (IF IsUpper(Head(s)) THEN <<"-", UpperToLower[Head(s)]>>
          ELSE <<Head(s)>>) \o DashLower(Tail(s))

\* the CamelCase class name as a kebab-case optimizer type
KebabType(class_name) ==
    LET stripped == IF EndsWith(class_name, Str_Optimizer)
                    THEN SubSeq(class_name, 1, Len(class_name) - 9)
                    ELSE class_name
    IN  LStripDash(DashLower(stripped))

register_optimizer(reg, optimizer_type, optimizer_class) ==
    MapSet(reg, optimizer_type, optimizer_class)

RECURSIVE DiscoverOver(_, _)
DiscoverOver(reg, members) ==
    IF members = <<>> THEN reg
    ELSE LET obj == Head(members)
             reg1 == IF /\ "ProductionOptimizerBase" \in ClassTable[obj].mro
                        /\ obj # "ProductionOptimizerBase"
                     THEN register_optimizer(reg, KebabType(ClassTable[obj].name), obj)
                     ELSE reg
         IN  DiscoverOver(reg1, Tail(members))

discover_optimizers(reg) == DiscoverOver(reg, ModuleMembers)

\* the registry once core.factory is imported
ImportedRegistry ==
    discover_optimizers(
        register_optimizer(
            register_optimizer(EmptyMap, Str_basic, "BasicProductionOptimizer"),
            Str_demand_constrained, "DemandConstrainedOptimizer"))

\* ---------------------------------------------------------- problem input
Product(n, profit, cost) ==
    [name |-> n, profit_per_unit |-> profit, cost_per_unit |-> cost]

Resource(n, cap) == [name |-> n, available_capacity |-> cap]

Usage(p, r, u) == [product_name |-> p, resource_name |-> r, usage_per_unit |-> u]

Objectives == {"maximize_profit", "minimize_cost", "maximize_revenue"}

\* the second list repeats a product name
ProductLists ==
    {<<Product("A", 3, 1), Product("B", 5, 2)>>,
     <<Product("A", 3, 1), Product("A", 4, 2)>>}

\* R2 has no capacity; the last capacity is negative
ResourceLists ==
    {<<>>,
     <<Resource("R1", 4)>>,
     <<Resource("R1", 4), Resource("R2", 0)>>,
     <<Resource("R1", 0 - 1)>>}

\* the third list has a negative coefficient; the fourth repeats a pair and
\* names a product and a resource that are not declared; the last repeats a
\* pair of a declared product and a declared resource
UsageLists ==
    {<<>>,
     <<Usage("A", "R1", 1), Usage("B", "R1", 2)>>,
     <<Usage("A", "R1", 0 - 1), Usage("B", "R1", 2)>>,
     <<Usage("A", "R1", 2), Usage("A", "R1", 1), Usage("C", "R9", 1)>>,
     <<Usage("A", "R1", 2), Usage("A", "R1", 1)>>}

\* the values a bound of a demand entry can hold in the request's JSON: a
\* number, or null
None == [type |-> "NoneType"]

Num(v) == [type |-> "float", inf |-> FALSE, val |-> v]

\* float('inf')
PyInf == [type |-> "float", inf |-> TRUE, val |-> 0]

\* a demand entry holds the bounds it gives; the fourth list has min > max
\* and an entry for a product that is not declared; the last gives the
\* second product a bound as null
DemandLists ==
    {<<>>,
     <<[product_name |-> "A", min_demand |-> Num(1)]>>,
     <<[product_name |-> "B", max_demand |-> Num(1)]>>,
     <<[product_name |-> "A", min_demand |-> Num(2), max_demand |-> Num(1)],
       [product_name |-> "Z", max_demand |-> Num(1)]>>,
     <<[product_name |-> "B", min_demand |-> Num(1), max_demand |-> None]>>}

Names(list) == {list[i].name : i \in DOMAIN list}

HasDuplicateName(list) ==
    \E i, j \in DOMAIN list : i < j /\ list[i].name = list[j].name

\* the objective and the products of a body: the two objectives over two
\* products, and an unknown objective over a repeated product name
Headings ==
    {h \in Objectives \X ProductLists :
        h[1] \in {"maximize_profit", "minimize_cost"} <=> ~HasDuplicateName(h[2])}

\* the request body: with the demand_constraints key (the demand-constrained
\* input model) or without it (the basic input model)
Problems ==
    {[objective |-> h[1], products |-> h[2], resources |-> rs, resource_usage |-> us] :
        h \in Headings, rs \in ResourceLists, us \in UsageLists}
    \cup
    {[objective |-> h[1], products |-> h[2], resources |-> rs, resource_usage |-> us,
      demand_constraints |-> ds] :
        h \in Headings, rs \in ResourceLists, us \in UsageLists, ds \in DemandLists}

\* ------------------------------------------------------- input validator
\* The six checks of the validator, each adding its violations in order.
\* the messages of one check over a list: msg[i] for every item with bad[i]
ErrorsOver(bad, msg) ==
    LET sel == SelectSeq([i \in DOMAIN bad |-> i], LAMBDA i : bad[i])
    IN  [k \in 1..Len(sel) |-> msg[sel[k]]]

\* a demand entry gives the bound: the key is there and its value is a number
GivesBound(d, k) == k \in DOMAIN d /\ d[k] # None

DemandOf(data) ==
    IF "demand_constraints" \in DOMAIN data THEN data.demand_constraints ELSE <<>>

ValidationErrors(data) ==
    LET pn == Names(data.products)
        rn == Names(data.resources)
        us == data.resource_usage
        rs == data.resources
        ds == DemandOf(data)
        badUsage == [i \in DOMAIN us |->
                        us[i].product_name \notin pn \/ us[i].resource_name \notin rn]
        usageMsg == [i \in DOMAIN us |->
                        <<"Unknown reference in resource_usage: ",
                          us[i].product_name, "/", us[i].resource_name>>]
        badCap == [i \in DOMAIN rs |-> rs[i].available_capacity < 0]
        capMsg == [i \in DOMAIN rs |-> <<"Negative available_capacity: ", rs[i].name>>]
        badBounds == [i \in DOMAIN ds |->
                        \/ /\ GivesBound(ds[i], "min_demand")
                           /\ GivesBound(ds[i], "max_demand")
                           /\ ds[i].min_demand.val > ds[i].max_demand.val
                        \/ /\ GivesBound(ds[i], "min_demand")
                           /\ ds[i].min_demand.val < 0]
        boundsMsg == [i \in DOMAIN ds |->
                        <<"Invalid demand bounds: ", ds[i].product_name>>]
        badRef == [i \in DOMAIN ds |-> ds[i].product_name \notin pn]
        refMsg == [i \in DOMAIN ds |->
                        <<"Unknown product in demand_constraints: ", ds[i].product_name>>]
    IN  (IF data.objective \in {"maximize_profit", "minimize_cost"} THEN <<>>
         ELSE <<(<<"Invalid objective: ", data.objective>>)>>)
        \o (IF HasDuplicateName(data.products)
            THEN <<(<<"Duplicate product name">>)>> ELSE <<>>)
        \o (IF HasDuplicateName(data.resources)
            THEN <<(<<"Duplicate resource name">>)>> ELSE <<>>)
        \o ErrorsOver(badUsage, usageMsg)
        \o ErrorsOver(badCap, capMsg)
        \o ErrorsOver(badBounds, boundsMsg)
        \o ErrorsOver(badRef, refMsg)

\* validate(problem) -> (is_valid, errors).  The validator is not among the
\* sources: whether it reads a missing demand_constraints key with a default
\* or by subscript is not known, so both outcomes are possible there.
validate_optimization_input(data) ==
    {Return([is_valid |-> ValidationErrors(data) = <<>>,
             errors   |-> ValidationErrors(data)])}
    \cup (IF "demand_constraints" \in DOMAIN data THEN {}
          ELSE {Raise("KeyError", <<"'demand_constraints'">>)})

\* audit(result, problem) -> (is_feasible, warnings).  The auditor is not
\* among the sources; the caller sees one of these outcomes.
validate_solution_feasibility(res, data) ==
    {Return([is_feasible |-> TRUE, warnings |-> <<>>]),
     Return([is_feasible |-> TRUE,
             warnings |-> <<(<<"Resource utilization is at capacity">>)>>]),
     Return([is_feasible |-> FALSE,
             warnings |-> <<(<<"Production violates a demand bound">>),
                            (<<"Resource usage exceeds capacity">>)>>])}
    \cup (IF "demand_constraints" \in DOMAIN data THEN {}
          ELSE {Raise("KeyError", <<"'demand_constraints'">>)})

\* ---------------------------------------------------- optimizer instances
\* BasicProductionOptimizer() and DemandConstrainedOptimizer()
NewOptimizer(cls) ==
    [cls |-> cls,
     model_name |-> IF cls = "DemandConstrainedOptimizer"
                    THEN "demand_constrained_optimization"
                    ELSE "basic_production_optimization"]

\* ---------------------------------------------------------- model builder
Unbounded == [inf |-> TRUE, val |-> 0]

Finite(v) == [inf |-> FALSE, val |-> v]

\* gp.Model(self.model_name) with the two parameters set
NewModel(model_name) ==
    [ModelName |-> model_name,
     params |-> [NumericFocus |-> 3, FeasibilityTol |-> "1e-6"],
     vars |-> <<>>,
     objective |-> [coeffs |-> <<>>, sense |-> "MINIMIZE"],
     constrs |-> <<>>,
     status |-> GRB_LOADED,
     x |-> <<>>,
     IISConstr |-> {}]

addVar(model, name, lb, ub) ==
    [model EXCEPT !.vars = Append(@, [VarName |-> name, lb |-> lb, ub |-> ub])]

addConstr(model, coeffs, rhs, name) ==
    [model EXCEPT !.constrs =
        Append(@, [type |-> "Constr", ConstrName |-> name,
                   coeffs |-> coeffs, rhs |-> rhs])]

\* resource_usage[product_name][resource_name] = usage_per_unit
RECURSIVE UsageMap(_)
UsageMap(list) ==
    IF list = <<>> THEN EmptyMap
    ELSE LET n == Len(list)
             ru == list[n]
             m == UsageMap(SubSeq(list, 1, n - 1))
             inner == IF ru.product_name \in DOMAIN m
                      THEN m[ru.product_name] ELSE EmptyMap
         IN  MapSet(m, ru.product_name,
                    MapSet(inner, ru.resource_name, ru.usage_per_unit))

_extract_common_data(data) ==
    [objective_type |-> data.objective,
     products |-> DictByField(data.products, "name"),
     resources |-> DictByField(data.resources, "name"),
     resource_usage |-> UsageMap(data.resource_usage)]

\* one variable per product, lb = 0.0 and no upper bound; the result is the
\* model and production_vars (product name -> index of its variable)
RECURSIVE CreateVarsBasic(_, _)
CreateVarsBasic(model, names) ==
    IF names = <<>> THEN [model |-> model, production_vars |-> EmptyDict]
    ELSE LET n == Len(names)
             prev == CreateVarsBasic(model, SubSeq(names, 1, n - 1))
             m1 == addVar(prev.model, <<"produce_", names[n]>>, 0, Unbounded)
         IN  [model |-> m1,
              production_vars |-> DictPut(prev.production_vars, names[n], Len(m1.vars))]

_create_production_variables(model, products) ==
    CreateVarsBasic(model, products.keys)

\* lb and ub as the loop body leaves them: the value under the entry's key
\* when the key is there, 0.0 and float('inf') otherwise
DemandLb(product_name, demand_constraints) ==
    IF /\ product_name \in DOMAIN demand_constraints
       /\ "min_demand" \in DOMAIN demand_constraints[product_name]
    THEN demand_constraints[product_name].min_demand
    ELSE Num(0)

DemandUb(product_name, demand_constraints) ==
    IF /\ product_name \in DOMAIN demand_constraints
       /\ "max_demand" \in DOMAIN demand_constraints[product_name]
    THEN demand_constraints[product_name].max_demand
    ELSE PyInf

\* model.addVar takes lb and ub as real numbers: None is a TypeError
AddVarRaises(lb, ub) == lb = None \/ ub = None

\* the bound a float argument gives the variable
AsUpperBound(ub) == IF ub.inf THEN Unbounded ELSE Finite(ub.val)

\* the products of the loop that reach addVar with a bound that is None
RaisingProducts(names, demand_constraints) ==
    {i \in DOMAIN names :
        AddVarRaises(DemandLb(names[i], demand_constraints),
                     DemandUb(names[i], demand_constraints))}

\* some product of the loop reaches addVar with a bound that is None
CreateVarsDemandRaises(names, demand_constraints) ==
    RaisingProducts(names, demand_constraints) # {}

\* the products the loop has given a variable when addVar raises
NamesBeforeRaise(names, demand_constraints) ==
    LET first == CHOOSE i \in RaisingProducts(names, demand_constraints) :
                    \A j \in RaisingProducts(names, demand_constraints) : i <= j
    IN  SubSeq(names, 1, first - 1)

RECURSIVE CreateVarsDemand(_, _, _)
CreateVarsDemand(model, names, demand_constraints) ==
    IF names = <<>> THEN [model |-> model, production_vars |-> EmptyDict]
    ELSE LET n == Len(names)
             prev == CreateVarsDemand(model, SubSeq(names, 1, n - 1), demand_constraints)
             m1 == addVar(prev.model, <<"produce_", names[n]>>,
                          DemandLb(names[n], demand_constraints).val,
                          AsUpperBound(DemandUb(names[n], demand_constraints)))
         IN  [model |-> m1,
              production_vars |-> DictPut(prev.production_vars, names[n], Len(m1.vars))]

_create_production_variables_with_demand(model, products, demand_constraints) ==
    CreateVarsDemand(model, products.keys, demand_constraints)

\* a linear expression over the model's variables: index -> coefficient
ZeroExpr(model) == [i \in 1..Len(model.vars) |-> 0]

AddTerm(expr, coef, var) == [expr EXCEPT ![var] = @ + coef]

RECURSIVE ObjectiveExpr(_, _, _, _, _)
ObjectiveExpr(model, names, products, production_vars, field) ==
    IF names = <<>> THEN ZeroExpr(model)
    ELSE LET n == Len(names)
         IN  AddTerm(ObjectiveExpr(model, SubSeq(names, 1, n - 1), products,
                                   production_vars, field),
                     products.val[names[n]][field],
                     production_vars.val[names[n]])

_set_objective(model, objective_type, products, production_vars) ==
    IF objective_type = "maximize_profit"
    THEN [model EXCEPT !.objective =
            [coeffs |-> ObjectiveExpr(model, products.keys, products,
                                      production_vars, "profit_per_unit"),
             sense |-> "MAXIMIZE"]]
    ELSE [model EXCEPT !.objective =
            [coeffs |-> ObjectiveExpr(model, products.keys, products,
                                      production_vars, "cost_per_unit"),
             sense |-> "MINIMIZE"]]

\* the left-hand side of one resource's constraint
RECURSIVE ConstraintExpr(_, _, _, _, _)
ConstraintExpr(model, names, resource_name, production_vars, resource_usage) ==
    IF names = <<>> THEN ZeroExpr(model)
    ELSE LET n == Len(names)
             prev == ConstraintExpr(model, SubSeq(names, 1, n - 1), resource_name,
                                    production_vars, resource_usage)
         IN  IF /\ names[n] \in DOMAIN resource_usage
                /\ resource_name \in DOMAIN resource_usage[names[n]]
             THEN AddTerm(prev, resource_usage[names[n]][resource_name],
                          production_vars.val[names[n]])
             ELSE prev

RECURSIVE AddConstraintsOver(_, _, _, _, _, _)
AddConstraintsOver(model, rnames, resources, products, production_vars, resource_usage) ==
    IF rnames = <<>> THEN model
    ELSE LET n == Len(rnames)
             prev == AddConstraintsOver(model, SubSeq(rnames, 1, n - 1), resources,
                                        products, production_vars, resource_usage)
         IN  addConstr(prev,
                       ConstraintExpr(model, products.keys, rnames[n],
                                      production_vars, resource_usage),
                       resources.val[rnames[n]].available_capacity,
                       <<"resource_", rnames[n]>>)

_add_resource_constraints(model, resources, products, production_vars, resource_usage) ==
    AddConstraintsOver(model, resources.keys, resources, products,
                       production_vars, resource_usage)

\* {d['product_name']: d for d in data['demand_constraints']}
RECURSIVE DemandMap(_)
DemandMap(list) ==
    IF list = <<>> THEN EmptyMap
    ELSE LET n == Len(list)
         IN  MapSet(DemandMap(SubSeq(list, 1, n - 1)), list[n].product_name, list[n])

\* an exception raised in the try block of solve(), and the model as the
\* statements before it left it
RaiseIn(model, t, m) == [raised |-> TRUE, exc |-> Raise(t, m).exc, model |-> model]

\* the try block of solve() from the extraction to the last constraint:
\* the built model and production_vars, or the exception raised
BuildBasic(model, data) ==
    LET cd == _extract_common_data(data)
        pv == _create_production_variables(model, cd.products)
        m2 == _set_objective(pv.model, cd.objective_type, cd.products, pv.production_vars)
        m3 == _add_resource_constraints(m2, cd.resources, cd.products,
                                        pv.production_vars, cd.resource_usage)
    IN  Return([model |-> m3, production_vars |-> pv.production_vars,
                resources |-> cd.resources])

BuildDemand(model, data) ==
    IF "demand_constraints" \notin DOMAIN data
    THEN RaiseIn(model, "KeyError", <<"'demand_constraints'">>)
    ELSE
    LET cd == _extract_common_data(data)
        demand_constraints == DemandMap(data.demand_constraints)
    IN
    IF CreateVarsDemandRaises(cd.products.keys, demand_constraints)
    THEN RaiseIn(CreateVarsDemand(model,
                                  NamesBeforeRaise(cd.products.keys, demand_constraints),
                                  demand_constraints).model,
                 "TypeError", <<"must be real number, not NoneType">>)
    ELSE
    LET pv == _create_production_variables_with_demand(model, cd.products,
                                                       demand_constraints)
        m2 == _set_objective(pv.model, cd.objective_type, cd.products, pv.production_vars)
        m3 == _add_resource_constraints(m2, cd.resources, cd.products,
                                        pv.production_vars, cd.resource_usage)
    IN  Return([model |-> m3, production_vars |-> pv.production_vars,
                resources |-> cd.resources])

\* the solve() a class binds: DemandConstrainedOptimizer overrides it
Build(cls, model, data) ==
    IF cls = "DemandConstrainedOptimizer" THEN BuildDemand(model, data)
    ELSE BuildBasic(model, data)

\* ------------------------------------------------------------- the solver
RECURSIVE SumTo(_, _, _)
SumTo(coeffs, x, n) ==
    IF n = 0 THEN 0 ELSE SumTo(coeffs, x, n - 1) + coeffs[n] * x[n]

\* the value of a linear expression at x
LinValue(coeffs, x) == SumTo(coeffs, x, Len(coeffs))

\* x respects every variable's bounds and every constraint
Feasible(model, x) ==
    /\ \A i \in DOMAIN model.vars :
          /\ model.vars[i].lb <= x[i]
          /\ model.vars[i].ub.inf \/ x[i] <= model.vars[i].ub.val
    /\ \A j \in DOMAIN model.constrs :
          LinValue(model.constrs[j].coeffs, x) <= model.constrs[j].rhs

\* the points the solver may report as optimal: the solver is an opaque
\* service, of which only that an optimal point is feasible is used
FeasiblePoints(model) ==
    {x \in [1..Len(model.vars) -> 0..MaxQty] : Feasible(model, x)}

\* the terminal states model.optimize() may leave the model in
OptimizeOutcomes(model) ==
    {[model EXCEPT !.status = GRB_OPTIMAL, !.x = x] : x \in FeasiblePoints(model)}
    \cup
    {[model EXCEPT !.status = s] : s \in (1..MaxStatusCode) \ {GRB_LOADED, GRB_OPTIMAL}}

\* the irreducible inconsistent sets computeIIS() may mark: any set of the
\* constraints (the rest of the set is variable bounds), or it raises
ComputeIISOutcomes(model) ==
    {Return([model EXCEPT !.IISConstr = S]) : S \in SUBSET DOMAIN model.constrs}
    \cup {Raise("GurobiError", <<"Cannot compute IIS">>)}

\* ---------------------------------------------------- result interpreter
PyStr(s) == [type |-> "str", val |-> s]

\* a == b of two Python objects: objects of unrelated types are not equal
PyEq(a, b) == a.type = b.type /\ a = b

\* a in list
PyIn(a, list) == \E i \in DOMAIN list : PyEq(a, list[i])

getConstrs(model) == model.constrs

getConstrByName(model, name) ==
    LET i == CHOOSE k \in DOMAIN model.constrs :
                /\ model.constrs[k].ConstrName = name
                /\ \A l \in 1..(k - 1) : model.constrs[l].ConstrName # name
    IN  model.constrs[i]

getSlack(model, constr) == constr.rhs - LinValue(constr.coeffs, model.x)

\* used / available * 100, kept as a fraction
Percent(used, available) ==
    IF available > 0 THEN [num |-> used * 100, den |-> available]
    ELSE [num |-> 0, den |-> 1]

RECURSIVE UtilizationOver(_, _)
UtilizationOver(model, rnames) ==
    IF rnames = <<>> THEN EmptyMap
    ELSE LET n == Len(rnames)
             prev == UtilizationOver(model, SubSeq(rnames, 1, n - 1))
             constr_name == <<"resource_", rnames[n]>>
         IN  IF PyIn(PyStr(constr_name), getConstrs(model))
             THEN LET constr == getConstrByName(model, constr_name)
                      available == constr.rhs
                      used == available - getSlack(model, constr)
                  IN  MapSet(prev, rnames[n],
                             [used |-> used, available |-> available,
                              utilization_pct |-> Percent(used, available)])
             ELSE prev

_get_resource_utilization(model, resources) ==
    UtilizationOver(model, resources.keys)

\* the production plan: values below epsilon in magnitude become 0
RECURSIVE PlanOver(_, _, _)
PlanOver(model, names, production_vars) ==
    IF names = <<>> THEN EmptyMap
    ELSE LET n == Len(names)
             value == model.x[production_vars.val[names[n]]]
         IN  MapSet(PlanOver(model, SubSeq(names, 1, n - 1), production_vars),
                    names[n],
                    IF Abs(value) * EpsilonInv < 1 THEN 0 ELSE value)

\* the names of the constraints of the computed set, in model order
RECURSIVE IISNames(_, _)
IISNames(model, n) ==
    IF n = 0 THEN <<>>
    ELSE IISNames(model, n - 1)
         \o (IF n \in model.IISConstr THEN <<model.constrs[n].ConstrName>> ELSE <<>>)

\* _prepare_result, given what computeIIS() does for this model (it is
\* called in the infeasible branch only)
_prepare_result(model, production_vars, resources, iis) ==
    IF model.status = GRB_OPTIMAL
    THEN Return([status |-> "optimal",
                 objective_value |-> LinValue(model.objective.coeffs, model.x),
                 production_plan |-> PlanOver(model, production_vars.keys, production_vars),
                 resource_utilization |-> _get_resource_utilization(model, resources),
                 solver_message |-> <<"Optimal solution found">>])
    ELSE IF model.status = GRB_INFEASIBLE
    THEN IF iis.raised THEN iis
         ELSE LET infeasible_constraints ==
                      IISNames(iis.value, Len(iis.value.constrs))
              IN  Return([status |-> "infeasible",
                          solver_message |-> <<"The model is infeasible">>,
                          infeasible_constraints |->
                              IF infeasible_constraints # <<>>
                              THEN [type |-> "list", val |-> infeasible_constraints]
                              ELSE PyStr(<<"Unknown">>)])
    ELSE IF model.status = GRB_UNBOUNDED
    THEN Return([status |-> "unbounded",
                 solver_message |->
                     <<"The model is unbounded (no finite optimal solution exists)">>])
    ELSE Return([status |-> "error",
                 solver_message |-> <<"Optimization status: ">> \o IntToStr(model.status)])

\* a variant of ExceptionResult that leaves the message out
ExceptionResult_NoMessage(exc) == [status |-> "error"]

\* the except clause of solve()
ExceptionResult(exc) == [status |-> "error", solver_message |-> exc.msg]

\* ----------------------------------------------------- validate_and_solve
\* a variant of ValidationErrorResult that reports the first violation only
ValidationErrorResult_FirstOnly(validation_errors) ==
    [status |-> "validation_error",
     solver_message |-> <<"Input validation failed">>,
     validation_errors |-> SubSeq(validation_errors, 1, 1)]

\* the result when the validator reports the input invalid
ValidationErrorResult(validation_errors) ==
    [status |-> "validation_error",
     solver_message |-> <<"Input validation failed">>,
     validation_errors |-> validation_errors]

\* a variant of ApplyAudit that attaches the warnings and keeps the status
ApplyAudit_NoDowngrade(res, audit) ==
    IF Len(audit.warnings) > 0
    THEN MapSet(res, "feasibility_warnings", audit.warnings)
    ELSE res

\* the result of an optimal solve once the auditor has answered
ApplyAudit(res, audit) ==
    IF ~audit.is_feasible
    THEN MapSet(MapSet(res, "status", "solution_warning"),
                "feasibility_warnings", audit.warnings)
    ELSE IF Len(audit.warnings) > 0
    THEN MapSet(res, "feasibility_warnings", audit.warnings)
    ELSE res

\* ------------------------------------------------------------- endpoints
\* marshal_with(optimization_output_model): the five fields of the output
\* model, None for a field the result does not hold
OutputFields ==
    {"status", "objective_value", "production_plan", "resource_utilization",
     "solver_message"}

Marshal(res) ==
    [k \in OutputFields |-> IF k \in DOMAIN res THEN res[k] ELSE None]

\* --------------------------------------------------------------- factory
\* a variant of get_optimizer that falls back to the basic optimizer
get_optimizer_Default(reg, optimizer_type) ==
    IF optimizer_type \in DOMAIN reg
    THEN Return(NewOptimizer(reg[optimizer_type]))
    ELSE Return(NewOptimizer("BasicProductionOptimizer"))

get_optimizer(reg, optimizer_type) ==
    IF optimizer_type \in DOMAIN reg
    THEN Return(NewOptimizer(reg[optimizer_type]))
    ELSE Raise("ValueError", <<"Unknown optimizer type: ">> \o optimizer_type)

\* ----------------------------------------------------------------- state
\* the requests in flight; the sequential specification runs the first
Requests == {"r1", "r2"}

Active == {"r1"}

\* how a request enters: the three POST routes, and a caller that takes an
\* optimizer from the factory and calls validate_and_solve on it
Routes == {"optimize", "basic-optimization", "demand-constrained", "validate_and_solve"}

Endpoints == Routes \ {"validate_and_solve"}

Identifiers == {Str_basic, Str_demand_constrained, Str_basic_production, Str_bogus}

NoRef == 0

NoRequest == [route |-> "none"]

NoLocals == [bound |-> FALSE]

NoResult == [status |-> "none"]

NoResponse == [kind |-> "none"]

NotCalled == [called |-> FALSE]

VARIABLES
    _optimizers,   \* OptimizerFactory._optimizers: identifier -> class
    instances,     \* the live optimizer instances, by object id
    models,        \* the live solver models, by object id
    next_id,       \* the id of the next object allocated
    pc,            \* where each request's handler is
    req,           \* each request: route, optimizer_type, data
    optimizer,     \* each request's optimizer instance (an object id)
    model_ref,     \* each request's solver model (an object id)
    locals,        \* production_vars and resources of each request's solve()
    validation,    \* is_valid, validation_errors of each validate_and_solve
    feasibility,   \* is_feasible, feasibility_warnings of each validate_and_solve
    result,        \* each request's result dict
    response,      \* what each request's caller gets
    calls          \* the stages each request has run, in order

vars == <<_optimizers, instances, models, next_id, pc, req, optimizer, model_ref,
          locals, validation, feasibility, result, response, calls>>

Init ==
    /\ _optimizers = ImportedRegistry
    /\ instances = EmptyMap
    /\ models = EmptyMap
    /\ next_id = 1
    /\ pc = [r \in Requests |-> "idle"]
    /\ req = [r \in Requests |-> NoRequest]
    /\ optimizer = [r \in Requests |-> NoRef]
    /\ model_ref = [r \in Requests |-> NoRef]
    /\ locals = [r \in Requests |-> NoLocals]
    /\ validation = [r \in Requests |-> NotCalled]
    /\ feasibility = [r \in Requests |-> NotCalled]
    /\ result = [r \in Requests |-> NoResult]
    /\ response = [r \in Requests |-> NoResponse]
    /\ calls = [r \in Requests |-> <<>>]

\* the heaps once request r's optimizer and model are unreachable
Dropped(heap, id) == [k \in DOMAIN heap \ {id} |-> heap[k]]

\* where a handler goes once solve() has returned
AfterSolve(r) == IF req[r].route = "validate_and_solve" THEN "audit" ELSE "respond"

\* an exception leaves the handler: the caller gets it, the locals die
Propagate(r, exc) ==
    /\ response' = [response EXCEPT ![r] = [kind |-> "raise", exc |-> exc]]
    /\ pc' = [pc EXCEPT ![r] = "raised"]
    /\ instances' = Dropped(instances, optimizer[r])
    /\ models' = Dropped(models, model_ref[r])
    /\ optimizer' = [optimizer EXCEPT ![r] = NoRef]
    /\ model_ref' = [model_ref EXCEPT ![r] = NoRef]
    /\ locals' = [locals EXCEPT ![r] = NoLocals]

\* a heap that hands every object the same identity
NewObject_Reused(next) == 1

\* the identity of a newly constructed object: one no live object has
NewObject(next) == next

\* a request with a body among problems arrives
ReceiveFrom(r, problems) ==
    /\ pc[r] = "idle"
    /\ next_id + 1 <= MaxObjects
    /\ \E route \in Routes, t \in Identifiers, d \in problems :
          /\ route = "basic-optimization" => t = Str_basic
          /\ route = "demand-constrained" => t = Str_demand_constrained
          /\ route = "validate_and_solve" => t \in DOMAIN _optimizers
          /\ req' = [req EXCEPT ![r] =
                        [route |-> route, optimizer_type |-> t, data |-> d]]
    /\ pc' = [pc EXCEPT ![r] = "get_optimizer"]
    /\ UNCHANGED <<_optimizers, instances, models, next_id, optimizer, model_ref,
                   locals, validation, feasibility, result, response, calls>>

\* a request arrives
Receive(r) == ReceiveFrom(r, Problems)

\* OptimizerFactory.get_optimizer(optimizer_type), and the except clause of
\* ProductionOptimization.post
GetOptimizer(r) ==
    /\ pc[r] = "get_optimizer"
    /\ LET got == get_optimizer(_optimizers, req[r].optimizer_type)
       IN  IF got.raised
           THEN IF req[r].route = "optimize" /\ got.exc.type = "ValueError"
                THEN LET ret == [status |-> "error", solver_message |-> got.exc.msg]
                     IN  /\ response' = [response EXCEPT ![r] =
                                [kind |-> "return", value |-> ret, code |-> 400,
                                 body |-> Marshal(ret)]]
                         /\ pc' = [pc EXCEPT ![r] = "done"]
                         /\ UNCHANGED <<instances, models, next_id, optimizer,
                                        model_ref, locals>>
                ELSE /\ Propagate(r, got.exc)
                     /\ UNCHANGED next_id
           ELSE /\ instances' = MapSet(instances, NewObject(next_id), got.value)
                /\ optimizer' = [optimizer EXCEPT ![r] = NewObject(next_id)]
                /\ next_id' = next_id + 1
                /\ pc' = [pc EXCEPT ![r] =
                            IF req[r].route = "validate_and_solve"
                            THEN "validate" ELSE "solve"]
                /\ UNCHANGED <<models, model_ref, locals, response>>
    /\ UNCHANGED <<_optimizers, req, validation, feasibility, result, calls>>

\* validate_and_solve up to the call of solve()
Validate(r) ==
    /\ pc[r] = "validate"
    /\ calls' = [calls EXCEPT ![r] = Append(@, "validate")]
    /\ \E v \in validate_optimization_input(req[r].data) :
          IF v.raised
          THEN /\ Propagate(r, v.exc)
               /\ UNCHANGED <<result, validation>>
          ELSE /\ validation' = [validation EXCEPT ![r] =
                      [called |-> TRUE, is_valid |-> v.value.is_valid,
                       validation_errors |-> v.value.errors]]
               /\ IF ~v.value.is_valid
                  THEN /\ result' = [result EXCEPT ![r] =
                                        ValidationErrorResult(v.value.errors)]
                       /\ pc' = [pc EXCEPT ![r] = "respond"]
                  ELSE /\ pc' = [pc EXCEPT ![r] = "solve"]
                       /\ UNCHANGED result
               /\ UNCHANGED <<instances, models, optimizer, model_ref, locals, response>>
    /\ UNCHANGED <<_optimizers, next_id, req, feasibility>>

\* solve() from _create_model to the last constraint
BuildModel(r) ==
    /\ pc[r] = "solve"
    /\ calls' = [calls EXCEPT ![r] = Append(@, "build")]
    /\ \/ \* gp.Model() fails
          /\ result' = [result EXCEPT ![r] =
                           ExceptionResult([type |-> "GurobiError",
                                            msg |-> <<"No Gurobi license found">>])]
          /\ pc' = [pc EXCEPT ![r] = AfterSolve(r)]
          /\ UNCHANGED <<models, next_id, model_ref, locals>>
       \/ LET self == instances[optimizer[r]]
              built == Build(self.cls, NewModel(self.model_name), req[r].data)
              id == NewObject(next_id)
          IN  /\ model_ref' = [model_ref EXCEPT ![r] = id]
              /\ next_id' = next_id + 1
              /\ IF built.raised
                 THEN /\ models' = MapSet(models, id, built.model)
                      /\ result' = [result EXCEPT ![r] = ExceptionResult(built.exc)]
                      /\ pc' = [pc EXCEPT ![r] = AfterSolve(r)]
                      /\ UNCHANGED locals
                 ELSE /\ models' = MapSet(models, id, built.value.model)
                      /\ locals' = [locals EXCEPT ![r] =
                            [bound |-> TRUE,
                             production_vars |-> built.value.production_vars,
                             resources |-> built.value.resources]]
                      /\ pc' = [pc EXCEPT ![r] = "optimize"]
                      /\ UNCHANGED result
    /\ UNCHANGED <<_optimizers, instances, req, optimizer, validation, feasibility,
                   response>>

\* model.optimize()
Optimize(r) ==
    /\ pc[r] = "optimize"
    /\ calls' = [calls EXCEPT ![r] = Append(@, "solve")]
    /\ \/ \E m \in OptimizeOutcomes(models[model_ref[r]]) :
             /\ models' = [models EXCEPT ![model_ref[r]] = m]
             /\ pc' = [pc EXCEPT ![r] = "interpret"]
             /\ UNCHANGED result
       \/ \* the solver fails
          /\ result' = [result EXCEPT ![r] =
                           ExceptionResult([type |-> "GurobiError",
                                            msg |-> <<"Out of memory">>])]
          /\ pc' = [pc EXCEPT ![r] = AfterSolve(r)]
          /\ UNCHANGED models
    /\ UNCHANGED <<_optimizers, instances, next_id, req, optimizer, model_ref,
                   locals, validation, feasibility, response>>

\* _prepare_result, and the except clause of solve() around it
PrepareResult(r) ==
    /\ pc[r] = "interpret"
    /\ calls' = [calls EXCEPT ![r] = Append(@, "interpret")]
    /\ LET m == models[model_ref[r]]
       IN  \E iis \in (IF m.status = GRB_INFEASIBLE
                       THEN ComputeIISOutcomes(m) ELSE {Return(m)}) :
              LET out == _prepare_result(m, locals[r].production_vars,
                                         locals[r].resources, iis)
              IN  /\ models' = [models EXCEPT ![model_ref[r]] =
                                   IF iis.raised THEN m ELSE iis.value]
                  /\ result' = [result EXCEPT ![r] =
                                   IF out.raised THEN ExceptionResult(out.exc)
                                   ELSE out.value]
    /\ pc' = [pc EXCEPT ![r] = AfterSolve(r)]
    /\ UNCHANGED <<_optimizers, instances, next_id, req, optimizer, model_ref,
                   locals, validation, feasibility, response>>

\* validate_and_solve after solve() has returned
Audit(r) ==
    /\ pc[r] = "audit"
    /\ IF result[r].status = "optimal"
       THEN /\ calls' = [calls EXCEPT ![r] = Append(@, "audit")]
            /\ \E a \in validate_solution_feasibility(result[r], req[r].data) :
                  IF a.raised
                  THEN /\ Propagate(r, a.exc)
                       /\ UNCHANGED <<result, feasibility>>
                  ELSE /\ feasibility' = [feasibility EXCEPT ![r] =
                              [called |-> TRUE, is_feasible |-> a.value.is_feasible,
                               feasibility_warnings |-> a.value.warnings]]
                       /\ result' = [result EXCEPT ![r] = ApplyAudit(@, a.value)]
                       /\ pc' = [pc EXCEPT ![r] = "respond"]
                       /\ UNCHANGED <<instances, models, optimizer, model_ref,
                                      locals, response>>
       ELSE /\ pc' = [pc EXCEPT ![r] = "respond"]
            /\ UNCHANGED <<instances, models, optimizer, model_ref, locals,
                           response, result, calls, feasibility>>
    /\ UNCHANGED <<_optimizers, next_id, req, validation>>

\* the handler returns its result; its optimizer and model are discarded
Respond(r) ==
    /\ pc[r] = "respond"
    /\ response' = [response EXCEPT ![r] =
          IF req[r].route \in Endpoints
          THEN [kind |-> "return", value |-> result[r], code |-> 200,
                body |-> Marshal(result[r])]
          ELSE [kind |-> "return", value |-> result[r]]]
    /\ pc' = [pc EXCEPT ![r] = "done"]
    /\ instances' = Dropped(instances, optimizer[r])
    /\ models' = Dropped(models, model_ref[r])
    /\ optimizer' = [optimizer EXCEPT ![r] = NoRef]
    /\ model_ref' = [model_ref EXCEPT ![r] = NoRef]
    /\ locals' = [locals EXCEPT ![r] = NoLocals]
    /\ UNCHANGED <<_optimizers, next_id, req, validation, feasibility, result, calls>>

\* the caller has taken the response; the request's slot is free again
Finish(r) ==
    /\ pc[r] \in {"done", "raised"}
    /\ pc' = [pc EXCEPT ![r] = "idle"]
    /\ req' = [req EXCEPT ![r] = NoRequest]
    /\ result' = [result EXCEPT ![r] = NoResult]
    /\ response' = [response EXCEPT ![r] = NoResponse]
    /\ calls' = [calls EXCEPT ![r] = <<>>]
    /\ validation' = [validation EXCEPT ![r] = NotCalled]
    /\ feasibility' = [feasibility EXCEPT ![r] = NotCalled]
    /\ UNCHANGED <<_optimizers, instances, models, next_id, optimizer, model_ref, locals>>

\* the registrations a client of the package makes after import: a variant
\* under a new identifier, and another class under a discovered identifier
Registrations ==
    {<<Str_bogus, "BasicProductionOptimizer">>,
     <<Str_basic_production, "DemandConstrainedOptimizer">>}

\* the caller is in no handler: it is free to make another call
BetweenCalls == \A r \in Requests : pc[r] = "idle"

\* OptimizerFactory.register_optimizer(optimizer_type, optimizer_class)
RegisterOptimizer ==
    /\ BetweenCalls
    /\ \E reg \in Registrations :
          _optimizers' = register_optimizer(_optimizers, reg[1], reg[2])
    /\ UNCHANGED <<instances, models, next_id, pc, req, optimizer, model_ref,
                   locals, validation, feasibility, result, response, calls>>

\* OptimizerFactory.discover_optimizers()
DiscoverOptimizers ==
    /\ BetweenCalls
    /\ _optimizers' = discover_optimizers(_optimizers)
    /\ UNCHANGED <<instances, models, next_id, pc, req, optimizer, model_ref,
                   locals, validation, feasibility, result, response, calls>>

Step(r) ==
    \/ Receive(r)
    \/ GetOptimizer(r)
    \/ Validate(r)
    \/ BuildModel(r)
    \/ Optimize(r)
    \/ PrepareResult(r)
    \/ Audit(r)
    \/ Respond(r)
    \/ Finish(r)

Next ==
    \/ \E r \in Active : Step(r)
    \/ RegisterOptimizer
    \/ DiscoverOptimizers

Spec == Init /\ [][Next]_vars

\* two requests in flight at once, their handlers' steps interleaved, while
\* no client of the package writes the registry.  The
\* bodies: the basic scenario, and the demand-constrained scenario with one
\* resource short
BasicScenario ==
    [objective |-> "maximize_profit",
     products |-> <<Product("A", 3, 1), Product("B", 5, 2)>>,
     resources |-> <<Resource("R1", 4)>>,
     resource_usage |-> <<Usage("A", "R1", 1), Usage("B", "R1", 2)>>]

DemandScenario ==
    [objective |-> "minimize_cost",
     products |-> <<Product("A", 3, 1), Product("B", 5, 2)>>,
     resources |-> <<Resource("R1", 4), Resource("R2", 0)>>,
     resource_usage |-> <<Usage("A", "R1", 1), Usage("B", "R1", 2)>>,
     demand_constraints |-> <<[product_name |-> "A", min_demand |-> Num(1)]>>]

ConcProblems == {BasicScenario, DemandScenario}

\* the requests that meet: the basic variant at an endpoint, the
\* demand-constrained variant under validate_and_solve, and an unknown selector
ConcRequests ==
    {[route |-> "optimize", optimizer_type |-> Str_basic, data |-> BasicScenario],
     [route |-> "validate_and_solve", optimizer_type |-> Str_demand_constrained,
      data |-> DemandScenario],
     [route |-> "optimize", optimizer_type |-> Str_bogus, data |-> BasicScenario]}

\* a request is taken while there is room for the optimizers and the models
\* of both
ConcReceive(r) ==
    /\ next_id + 3 <= MaxObjects
    /\ ReceiveFrom(r, ConcProblems)
    /\ req'[r] \in ConcRequests

ConcStep(r) ==
    \/ ConcReceive(r)
    \/ GetOptimizer(r)
    \/ Validate(r)
    \/ BuildModel(r)
    \/ Optimize(r)
    \/ PrepareResult(r)
    \/ Audit(r)
    \/ Respond(r)
    \/ Finish(r)

ConcNext == \E r \in Requests : ConcStep(r)

ConcSpec == Init /\ [][ConcNext]_vars

\* ================================================================ claims
LastCall(r) == IF calls[r] = <<>> THEN "none" ELSE calls[r][Len(calls[r])]

\* solve() has returned from _prepare_result and the model is still alive
Interpreted(r) == LastCall(r) \in {"interpret", "audit"} /\ model_ref[r] # NoRef

\* _prepare_result has just returned or raised, nothing has run since
JustInterpreted(r) == LastCall(r) = "interpret" /\ model_ref[r] # NoRef

Returned(r) == response[r].kind = "return"

\* C1: every request an optimizer variant handles runs validate -> build ->
\* solve -> interpret -> audit: no model is built or optimized before the
\* validator has run, and no 'optimal' result is returned before the auditor
\* has run on it.
C1_PipelineOrder ==
    \A r \in Requests :
        /\ \A i \in DOMAIN calls[r] :
              calls[r][i] \in {"build", "solve"} =>
                  \E j \in 1..(i - 1) : calls[r][j] = "validate"
        /\ (Returned(r) /\ response[r].value.status = "optimal")
              => "audit" \in Range(calls[r])

\* C2: when the validator returns is_valid = false, validate_and_solve
\* returns status 'validation_error' with the validator's whole error list,
\* in order, and neither a model, nor a solve, nor an audit has happened.
C2_ValidationError ==
    \A r \in Requests :
        (validation[r].called /\ ~validation[r].is_valid) =>
            /\ pc[r] \in {"respond", "done"}
            /\ result[r].status = "validation_error"
            /\ result[r].validation_errors = validation[r].validation_errors
            /\ calls[r] = <<"validate">>
            /\ model_ref[r] = NoRef
            /\ ~feasibility[r].called
            /\ Returned(r) => response[r].value = result[r]

\* the validator found three or more violations and the caller has the result
C2_Witness ==
    \E r \in Requests :
        /\ validation[r].called
        /\ ~validation[r].is_valid
        /\ Len(validation[r].validation_errors) >= 3
        /\ pc[r] = "done"
        /\ Returned(r)

\* C3: in validate_and_solve the auditor runs only on a result of status
\* 'optimal'; an infeasible audit makes the status 'solution_warning' with
\* the warnings attached; a feasible audit with warnings keeps 'optimal' and
\* attaches them; a result of any other status is returned as solve() gave it.
C3_AuditStep(r) ==
    /\ (pc[r] = "audit" /\ pc'[r] # "audit") =>
          IF result[r].status # "optimal"
          THEN /\ result'[r] = result[r]
               /\ calls'[r] = calls[r]
               /\ ~feasibility'[r].called
               /\ pc'[r] = "respond"
          ELSE /\ calls'[r] = Append(calls[r], "audit")
               /\ pc'[r] = "respond" =>
                     LET f == feasibility'[r]
                         before == result[r]
                         after == result'[r]
                     IN  /\ f.called
                         /\ \A k \in DOMAIN before \ {"status"} :
                               k \in DOMAIN after /\ after[k] = before[k]
                         /\ IF ~f.is_feasible
                            THEN /\ after.status = "solution_warning"
                                 /\ after.feasibility_warnings = f.feasibility_warnings
                            ELSE IF f.feasibility_warnings # <<>>
                            THEN /\ after.status = "optimal"
                                 /\ after.feasibility_warnings = f.feasibility_warnings
                            ELSE after = before
    /\ (pc[r] = "respond" /\ pc'[r] = "done") => response'[r].value = result[r]

C3_Audit == [][\A r \in Requests : C3_AuditStep(r)]_vars

\* the auditor found the optimal solution infeasible and the caller has the
\* downgraded result
C3_Witness ==
    \E r \in Requests :
        /\ feasibility[r].called
        /\ ~feasibility[r].is_feasible
        /\ pc[r] = "done"
        /\ Returned(r)
        /\ response[r].value.status = "solution_warning"

ExpectedStatus(code) ==
    IF code = GRB_OPTIMAL THEN "optimal"
    ELSE IF code = GRB_INFEASIBLE THEN "infeasible"
    ELSE IF code = GRB_UNBOUNDED THEN "unbounded"
    ELSE "error"

\* C4: _prepare_result is total over the solver's status codes: optimal,
\* infeasible and unbounded map to the result status of the same name, every
\* other code maps to 'error' with the code in solver_message, and for no
\* code does the mapping raise.
C4_InterpreterTotal ==
    \A r \in Requests :
        JustInterpreted(r) =>
            LET code == models[model_ref[r]].status
            IN  /\ result[r].status = ExpectedStatus(code)
                /\ code \notin {GRB_OPTIMAL, GRB_INFEASIBLE, GRB_UNBOUNDED} =>
                      result[r].solver_message =
                          <<"Optimization status: ">> \o IntToStr(code)

\* C5: when the solver's terminal status is infeasible the result has status
\* 'infeasible' and infeasible_constraints is a non-empty list of constraints
\* of the inconsistent set or 'Unknown', also when the set cannot be computed.
C5_InfeasibleDiagnosis ==
    \A r \in Requests :
        (JustInterpreted(r) /\ models[model_ref[r]].status = GRB_INFEASIBLE) =>
            /\ result[r].status = "infeasible"
            /\ LET ic == result[r].infeasible_constraints
                   m == models[model_ref[r]]
               IN  \/ /\ ic.type = "list"
                      /\ ic.val # <<>>
                      /\ Range(ic.val) =
                            {m.constrs[j].ConstrName : j \in m.IISConstr}
                   \/ /\ ic.type = "str"
                      /\ ic.val = <<"Unknown">>

\* C6: no failure inside a request reaches the caller as an exception: every
\* path through solve(), validate_and_solve and the endpoints ends in a
\* result with a status.
C6_NoUnhandledFault ==
    \A r \in Requests :
        /\ pc[r] # "raised"
        /\ response[r].kind # "raise"
        /\ Returned(r) => "status" \in DOMAIN response[r].value

ResultStatuses ==
    {"optimal", "infeasible", "unbounded", "error", "validation_error",
     "solution_warning"}

WellFormed(res) ==
    /\ res.status \in ResultStatuses
    /\ "solver_message" \in DOMAIN res
    /\ \A k \in {"objective_value", "production_plan", "resource_utilization"} :
          k \in DOMAIN res <=> res.status \in {"optimal", "solution_warning"}

\* C7: every result solve(), validate_and_solve or the unknown-selector branch
\* returns has one of the six statuses and a solver_message, and holds
\* objective_value, production_plan and resource_utilization exactly when the
\* status is optimal or solution_warning.
C7_ResultShape ==
    \A r \in Requests :
        /\ result[r] # NoResult => WellFormed(result[r])
        /\ Returned(r) => WellFormed(response[r].value)

\* both families have been returned: a downgraded optimal result with its
\* plan, and the unknown-selector error without one
C7_Witness ==
    \E r \in Requests :
        /\ Returned(r)
        /\ response[r].value.status = "solution_warning"
        /\ "production_plan" \in DOMAIN response[r].value
        /\ "objective_value" \in DOMAIN response[r].value

\* the capacity the resources dict holds for a name: the last entry wins
CapacityOf(data, rn) ==
    LET i == CHOOSE k \in DOMAIN data.resources :
                /\ data.resources[k].name = rn
                /\ \A l \in DOMAIN data.resources :
                      l > k => data.resources[l].name # rn
    IN  data.resources[i].available_capacity

\* C8: an 'optimal' result reports the utilization of every declared
\* resource: available = capacity, used = available - slack of the resource's
\* constraint, utilization_pct = used / available * 100, or 0 at capacity 0.
C8_UtilizationComplete ==
    \A r \in Requests :
        (Interpreted(r) /\ result[r].status = "optimal") =>
            LET u == result[r].resource_utilization
                m == models[model_ref[r]]
                data == req[r].data
            IN  /\ DOMAIN u = Names(data.resources)
                /\ \A rn \in DOMAIN u :
                      LET c == getConstrByName(m, <<"resource_", rn>>)
                      IN  /\ u[rn].available = CapacityOf(data, rn)
                          /\ u[rn].used = u[rn].available - getSlack(m, c)
                          /\ u[rn].utilization_pct =
                                Percent(u[rn].used, u[rn].available)

\* C9: for a valid problem and a feasible optimal solution, the
\* utilization_pct reported for every resource is in [0, 100], and is 0 when
\* the resource's capacity is 0.
C9_PercentRange ==
    \A r \in Requests :
        (/\ Interpreted(r)
         /\ result[r].status = "optimal"
         /\ ValidationErrors(req[r].data) = <<>>) =>
            LET u == result[r].resource_utilization
                data == req[r].data
            IN  \A rn \in Names(data.resources) :
                   /\ rn \in DOMAIN u
                   /\ 0 <= u[rn].utilization_pct.num
                   /\ u[rn].utilization_pct.num <= 100 * u[rn].utilization_pct.den
                   /\ CapacityOf(data, rn) = 0 => u[rn].utilization_pct.num = 0

\* C10: the registry the import leaves holds basic, demand-constrained and
\* basic-production; get_optimizer returns a fresh instance of the class
\* registered under the identifier, or raises ValueError when none is; at
\* /optimize/<type> an unregistered identifier ends as HTTP 400 with status
\* 'error' and a message naming the identifier, and nothing is solved.
C10_Imported ==
    /\ DOMAIN _optimizers = {Str_basic, Str_demand_constrained, Str_basic_production}
    /\ _optimizers[Str_basic] = "BasicProductionOptimizer"
    /\ _optimizers[Str_demand_constrained] = "DemandConstrainedOptimizer"

\* the call of get_optimizer in r's handler: with the identifier registered,
\* r gets an object no request and no heap held before, of the class the
\* registry holds for the identifier at the call; with the identifier not
\* registered, /optimize/<type> answers 400 and any other caller gets the
\* ValueError, and r is given no object
C10_Fresh(r) ==
    (pc[r] = "get_optimizer" /\ pc'[r] # "get_optimizer") =>
        IF req[r].optimizer_type \in DOMAIN _optimizers
        THEN /\ optimizer'[r] # NoRef
             /\ optimizer'[r] \notin DOMAIN instances
             /\ optimizer'[r] \notin DOMAIN models
             /\ optimizer'[r] >= next_id
             /\ next_id' > optimizer'[r]
             /\ \A q \in Requests \ {r} : optimizer'[q] # optimizer'[r]
             /\ instances'[optimizer'[r]].cls = _optimizers[req[r].optimizer_type]
        ELSE /\ optimizer'[r] = NoRef
             /\ instances' = instances
             /\ IF req[r].route = "optimize"
                THEN /\ pc'[r] = "done"
                     /\ response'[r].kind = "return"
                     /\ response'[r].code = 400
                     /\ response'[r].value =
                           [status |-> "error",
                            solver_message |-> <<"Unknown optimizer type: ">>
                                                  \o req[r].optimizer_type]
                ELSE /\ pc'[r] = "raised"
                     /\ response'[r].kind = "raise"
                     /\ response'[r].exc.type = "ValueError"

\* a request answered with 400 has solved nothing and holds no object
C10_State(r) ==
    (Returned(r) /\ "code" \in DOMAIN response[r] /\ response[r].code = 400) =>
        /\ pc[r] = "done"
        /\ req[r].route = "optimize"
        /\ calls[r] = <<>>
        /\ result[r] = NoResult
        /\ optimizer[r] = NoRef
        /\ model_ref[r] = NoRef

C10_Selector ==
    /\ C10_Imported
    /\ [](\A r \in Requests : C10_State(r))
    /\ [][\A r \in Requests : C10_Fresh(r)]_vars

\* an unregistered identifier was answered with 400 after an earlier request
\* had been given its instance
C10_Witness ==
    \E r \in Requests :
        /\ Returned(r)
        /\ req[r].route = "optimize"
        /\ req[r].optimizer_type \notin DOMAIN _optimizers
        /\ response[r].code = 400
        /\ next_id > 1

\* the construction step of r's solve() has run and r's model is alive
Built(r) == "build" \in Range(calls[r]) /\ model_ref[r] # NoRef

ClassOf(r) == instances[optimizer[r]].cls

\* the bound a product's demand entry gives, if some entry gives it
GivenBounds(data, p, k) ==
    {d[k].val : d \in {e \in Range(DemandOf(data)) :
                          e.product_name = p /\ GivesBound(e, k)}}

PolicyLb(cls, data, p) ==
    IF cls = "DemandConstrainedOptimizer" /\ GivenBounds(data, p, "min_demand") # {}
    THEN CHOOSE v \in GivenBounds(data, p, "min_demand") : TRUE
    ELSE 0

PolicyUb(cls, data, p) ==
    IF cls = "DemandConstrainedOptimizer" /\ GivenBounds(data, p, "max_demand") # {}
    THEN Finite(CHOOSE v \in GivenBounds(data, p, "max_demand") : TRUE)
    ELSE Unbounded

\* model m has exactly one variable per product of data, bounded by the
\* policy of variant cls
FollowsBoundsPolicy(m, cls, data) ==
    /\ Len(m.vars) = Cardinality(Names(data.products))
    /\ \A p \in Names(data.products) :
          \E i \in DOMAIN m.vars :
             /\ m.vars[i].VarName = <<"produce_", p>>
             /\ m.vars[i].lb = PolicyLb(cls, data, p)
             /\ m.vars[i].ub = PolicyUb(cls, data, p)

\* C11: once solve() has constructed the model of a request (for the
\* demand-constrained variant: of a request that carries demand_constraints),
\* the model has exactly one variable per product; in the basic variant each
\* has lower bound 0 and no upper bound whatever demand_constraints say; in
\* the demand-constrained variant the lower bound is the product's min_demand
\* and the upper bound its max_demand, 0 and unbounded where the product has
\* no entry or the entry's bound is absent or null.
C11_BoundsPolicy ==
    \A r \in Requests :
        (/\ Built(r)
         /\ ClassOf(r) = "DemandConstrainedOptimizer"
                => "demand_constraints" \in DOMAIN req[r].data)
        => FollowsBoundsPolicy(models[model_ref[r]], ClassOf(r), req[r].data)

\* some bound of the request's demand entries is null
HasNullBound(data) ==
    \E d \in Range(DemandOf(data)) :
        \E k \in {"min_demand", "max_demand"} \cap DOMAIN d : d[k] = None

\* the same policy over the requests none of whose bounds is null
C11_BoundsPolicyOfNumbers ==
    \A r \in Requests :
        (/\ Built(r)
         /\ ClassOf(r) = "DemandConstrainedOptimizer"
                => "demand_constraints" \in DOMAIN req[r].data
         /\ ~HasNullBound(req[r].data))
        => FollowsBoundsPolicy(models[model_ref[r]], ClassOf(r), req[r].data)

\* ---- a request run alone, as one composition of the handler's stages
\* the dicts solve() can return for data on optimizer instance self
SolveResults(self, data) ==
    LET built == Build(self.cls, NewModel(self.model_name), data)
        Prepared(m, iis) ==
            LET out == _prepare_result(m, built.value.production_vars,
                                       built.value.resources, iis)
            IN  IF out.raised THEN ExceptionResult(out.exc) ELSE out.value
    IN  {ExceptionResult([type |-> "GurobiError",
                          msg |-> <<"No Gurobi license found">>])}
        \cup
        (IF built.raised THEN {ExceptionResult(built.exc)}
         ELSE {ExceptionResult([type |-> "GurobiError", msg |-> <<"Out of memory">>])}
              \cup
              UNION {{Prepared(m, iis) :
                        iis \in (IF m.status = GRB_INFEASIBLE
                                 THEN ComputeIISOutcomes(m) ELSE {Return(m)})} :
                     m \in OptimizeOutcomes(built.value.model)})

\* what validate_and_solve hands its caller once solve() returned res
AuditedResponses(res, data) ==
    IF res.status = "optimal"
    THEN {IF a.raised THEN [kind |-> "raise", exc |-> a.exc]
          ELSE [kind |-> "return", value |-> ApplyAudit(res, a.value)] :
             a \in validate_solution_feasibility(res, data)}
    ELSE {[kind |-> "return", value |-> res]}

\* every outcome request q can have, with registry reg, when no other
\* request is in flight: what is returned, with which code, or what is raised
SoloOutcomes(reg, q) ==
    LET got == get_optimizer(reg, q.optimizer_type)
    IN  IF got.raised
        THEN IF q.route = "optimize" /\ got.exc.type = "ValueError"
             THEN LET ret == [status |-> "error", solver_message |-> got.exc.msg]
                  IN  {[kind |-> "return", value |-> ret, code |-> 400]}
             ELSE {[kind |-> "raise", exc |-> got.exc]}
        ELSE IF q.route \in Endpoints
        THEN {[kind |-> "return", value |-> res, code |-> 200] :
                 res \in SolveResults(got.value, q.data)}
        ELSE UNION {IF v.raised THEN {[kind |-> "raise", exc |-> v.exc]}
                    ELSE IF ~v.value.is_valid
                    THEN {[kind |-> "return",
                           value |-> ValidationErrorResult(v.value.errors)]}
                    ELSE UNION {AuditedResponses(res, q.data) :
                                   res \in SolveResults(got.value, q.data)} :
                       v \in validate_optimization_input(q.data)}

\* the pairs of a request that meets another and an outcome it has when it
\* runs alone
AloneOutcomes ==
    {p : p \in UNION {{<<q, out>> : out \in SoloOutcomes(ImportedRegistry, q)} :
                         q \in ConcRequests}}

\* the outcome a response carries; an endpoint's body is the marshalled value
Outcome(resp) == [k \in DOMAIN resp \ {"body"} |-> resp[k]]

\* the registry is as the import left it, the requests in flight hold
\* different optimizer instances and different models, and a response is one
\* the request gets when run alone, marshalled from the request's own result
C12_State ==
    /\ _optimizers = ImportedRegistry
    /\ \A r, q \in Requests :
          r # q =>
             /\ optimizer[r] # NoRef => optimizer[r] # optimizer[q]
             /\ model_ref[r] # NoRef => model_ref[r] # model_ref[q]
    /\ \A r \in Requests :
          /\ optimizer[r] # NoRef => optimizer[r] \in DOMAIN instances
          /\ model_ref[r] # NoRef => model_ref[r] \in DOMAIN models
          /\ response[r] # NoResponse =>
                /\ <<req[r], Outcome(response[r])>> \in AloneOutcomes
                /\ "body" \in DOMAIN response[r] =>
                      response[r].body = Marshal(response[r].value)

\* everything request q holds: its handler's state and its two objects
Holds(q) ==
    [pc |-> pc[q], req |-> req[q], locals |-> locals[q],
     validation |-> validation[q], feasibility |-> feasibility[q],
     result |-> result[q], response |-> response[q], calls |-> calls[q],
     optimizer |-> IF optimizer[q] \in DOMAIN instances
                   THEN <<optimizer[q], instances[optimizer[q]]>> ELSE <<>>,
     model |-> IF model_ref[q] \in DOMAIN models
               THEN <<model_ref[q], models[model_ref[q]]>> ELSE <<>>]

\* a step is the step of one request: what every other request holds is as
\* it was, and the registry is not written
C12_Step ==
    /\ _optimizers' = _optimizers
    /\ \E r \in Requests : \A q \in Requests \ {r} : Holds(q)' = Holds(q)

\* C12: with two requests in flight and their steps interleaved in any
\* order, each request has its own optimizer instance and its own model, no
\* step of one request changes anything another request holds (its model,
\* variables, result), and each request's response is one it gets when it
\* runs alone.
C12_Isolation == []C12_State /\ [][C12_Step]_vars

\* both variants are in flight with their models alive, one interpreted as
\* optimal while the other is still to be interpreted
C12_Witness ==
    /\ model_ref["r1"] # NoRef /\ model_ref["r2"] # NoRef
    /\ ClassOf("r1") # ClassOf("r2")
    /\ result["r1"].status = "optimal"
    /\ pc["r2"] = "interpret"

\* the sum of usage_per_unit over the entries of list for product p and
\* resource rn
RECURSIVE SumUsage(_, _, _)
SumUsage(list, p, rn) ==
    IF list = <<>> THEN 0
    ELSE LET n == Len(list)
         IN  SumUsage(SubSeq(list, 1, n - 1), p, rn)
             + (IF list[n].product_name = p /\ list[n].resource_name = rn
                THEN list[n].usage_per_unit ELSE 0)

\* model m has exactly one constraint per resource of data, named after it,
\* bounded by its capacity, each product's coefficient the usage the input
\* gives for the pair
HasCapacityConstraints(m, data) ==
    /\ Len(m.constrs) = Cardinality(Names(data.resources))
    /\ \A rn \in Names(data.resources) :
          \E j \in DOMAIN m.constrs :
             /\ m.constrs[j].ConstrName = <<"resource_", rn>>
             /\ \E k \in DOMAIN data.resources :
                   /\ data.resources[k].name = rn
                   /\ m.constrs[j].rhs = data.resources[k].available_capacity
             /\ \A i \in DOMAIN m.vars :
                   \A p \in Names(data.products) :
                      m.vars[i].VarName = <<"produce_", p>> =>
                         m.constrs[j].coeffs[i] = SumUsage(data.resource_usage, p, rn)

\* r's solve() has constructed its model without an exception
Constructed(r) == Built(r) /\ locals[r].bound

\* C13: the model a request's solve() has built holds exactly one capacity
\* constraint per declared resource, named resource_<name>: the sum over the
\* products of usage_per_unit * quantity is at most available_capacity, a
\* pair without an entry contributing zero and every entry supplied for a
\* pair contributing its coefficient; a resource no entry names has its
\* constraint with all coefficients zero.
C13_Constraints ==
    \A r \in Requests :
        Constructed(r) => HasCapacityConstraints(models[model_ref[r]], req[r].data)

\* two entries of the list name the same product and resource
RepeatsPair(list) ==
    \E i, j \in DOMAIN list :
        /\ i < j
        /\ list[i].product_name = list[j].product_name
        /\ list[i].resource_name = list[j].resource_name

\* the same over the requests whose resource_usage names no pair twice
C13_ConstraintsOfMatrix ==
    \A r \in Requests :
        Constructed(r) /\ ~RepeatsPair(req[r].data.resource_usage)
        => HasCapacityConstraints(models[model_ref[r]], req[r].data)

\* no product of data has a demand bound: the set is absent, or empty
NoDemandBound(data) ==
    "demand_constraints" \notin DOMAIN data \/ data.demand_constraints = <<>>

\* the model the basic variant builds for data
BasicModelOf(data) ==
    BuildBasic(NewModel(NewOptimizer("BasicProductionOptimizer").model_name),
               data).value.model

\* the same variables and bounds, objective and constraints
SameModel(m1, m2) ==
    /\ m1.vars = m2.vars
    /\ m1.objective = m2.objective
    /\ m1.constrs = m2.constrs

\* request r is handled by the demand-constrained variant, solve() is past
\* its construction step and has not been audited
DemandSolving(r) ==
    /\ optimizer[r] # NoRef
    /\ ClassOf(r) = "DemandConstrainedOptimizer"
    /\ LastCall(r) \in {"build", "solve", "interpret"}

AgreesWithBasic(r) ==
    /\ model_ref[r] # NoRef
    /\ locals[r].bound
    /\ SameModel(models[model_ref[r]], BasicModelOf(req[r].data))
    /\ result[r] # NoResult =>
          result[r] \in SolveResults(NewOptimizer("BasicProductionOptimizer"),
                                     req[r].data)

\* C14: on every problem without a demand bound (demand_constraints absent
\* or empty) the demand-constrained variant builds the model the basic
\* variant builds (variables and bounds, objective, constraints) and returns
\* a result the basic variant returns on that problem.
C14_VariantsAgree ==
    \A r \in Requests :
        DemandSolving(r) /\ NoDemandBound(req[r].data)
        /\ (model_ref[r] # NoRef \/ result[r] = NoResult)
        => AgreesWithBasic(r)

\* the same over the problems that carry an empty demand_constraints
C14_VariantsAgreeOnEmpty ==
    \A r \in Requests :
        DemandSolving(r) /\ model_ref[r] # NoRef
        /\ "demand_constraints" \in DOMAIN req[r].data
        /\ req[r].data.demand_constraints = <<>>
        => AgreesWithBasic(r)

\* the demand-constrained variant has returned an optimal result on a
\* problem with an empty demand_constraints
C14_EmptyWitness ==
    /\ DemandSolving("r1") /\ model_ref["r1"] # NoRef
    /\ "demand_constraints" \in DOMAIN req["r1"].data
    /\ req["r1"].data.demand_constraints = <<>>
    /\ result["r1"].status = "optimal"


====
